---- MODULE Spec2Model ----
(***************************************************************************)
(* Model of lambda/src/job_def/register.py: the CloudFormation custom      *)
(* resource handler that registers AWS Batch job definitions.              *)
(*                                                                         *)
(* Python dicts are functions from the keys that are present to values;    *)
(* a subscript on a missing key raises KeyError.  Objects that Python      *)
(* holds by reference (the parsed job definition spec and its nested       *)
(* containers) live in a heap indexed by address, so that aliasing made by *)
(* dict.copy() is visible.                                                 *)
(***************************************************************************)
EXTENDS Integers, Sequences, FiniteSets, TLC

VARIABLES
    event,        \* the invocation's event dict
    context,      \* the invocation's context object (its attributes)
    environ,      \* os.environ
    caller,       \* who opened the responder scope
    pc,           \* position of the invocation
    response,     \* the Response envelope (a Response record once built)
    bodyExc,      \* exception raised by the scope body, NONE if none
    exc,          \* exception propagating out of the invocation, NONE if none
    requests,     \* HTTP requests issued by respond, in order
    transport,    \* outcome of the callback delivery
    batchCalls,   \* calls made on the batch client, in order
    batchResult,  \* value returned by register_job_definition
    heap,         \* dicts and lists held by reference
    spec0,        \* address of the parsed spec (the caller's original)
    spec,         \* address of the edited spec
    calls,        \* record of every edit_spec call
    writes,       \* number of envelope assignments made by a generic body
    left          \* Status the scope body left in the envelope when it ended

vars == <<event, context, environ, caller, pc, response, bodyExc, exc,
          requests, transport, batchCalls, batchResult, heap, spec0, spec,
          calls, writes, left>>

----------------------------------------------------------------------------
(* Bounds *)

\* longest pre-existing environment list in a spec
MaxEnv == 2
\* number of edit_spec calls made on one spec object
MaxCalls == 2
\* number of envelope assignments a generic scope body makes
MaxWrites == 2

----------------------------------------------------------------------------
(* Python values *)

NONE == "None"

Get(d, k) == IF k \in DOMAIN d THEN d[k] ELSE NONE

Put(d, k, v) == [x \in (DOMAIN d) \cup {k} |-> IF x = k THEN v ELSE d[x]]

EmptyDict == [k \in {} |-> NONE]

RECURSIVE SeqsUpTo(_, _)
SeqsUpTo(S, n) ==
    IF n = 0 THEN {<<>>}
    ELSE LET shorter == SeqsUpTo(S, n - 1)
         IN  shorter \cup {Append(s, e) : s \in shorter, e \in S}

----------------------------------------------------------------------------
(* json.dumps(image, sort_keys=True, separators=(",", ":")) *)

\* the keys an image mapping may carry, in sorted order
ImageKeys == <<"repo", "tag">>

Quote(s) == "\"" \o s \o "\""

RECURSIVE DumpItems(_, _)
DumpItems(image, i) ==
    IF i > Len(ImageKeys) THEN <<>>
    ELSE LET k == ImageKeys[i]
             rest == DumpItems(image, i + 1)
         IN  IF k \in DOMAIN image
             THEN <<Quote(k) \o ":" \o Quote(image[k])>> \o rest
             ELSE rest

RECURSIVE Join(_)
Join(items) ==
    IF items = <<>> THEN ""
    ELSE IF Len(items) = 1 THEN items[1]
    ELSE items[1] \o "," \o Join(Tail(items))

json_dumps(image) == "{" \o Join(DumpItems(image, 1)) \o "}"

----------------------------------------------------------------------------
(* The heap and json.loads *)

EmptyHeap == [d |-> EmptyDict, l |-> EmptyDict]

\* json.loads builds a fresh tree: no object is shared
json_loads(text) ==
    IF ~text.wellformed
    THEN [exc |-> "JSONDecodeError", heap |-> EmptyHeap, obj |-> NONE]
    ELSE LET doc == text.doc
             top == [k \in {"type"} \cup doc.keys |->
                        CASE k = "type" -> "container"
                          [] k = "containerProperties" -> "@cp"
                          [] k = "parameters" -> "@parameters"
                          [] k = "tags" -> "@tags"]
             cp  == [k \in {"image"} \cup doc.cpkeys |->
                        CASE k = "image" -> "img"
                          [] k = "environment" -> "@environment"]
             dictAddrs == {"@spec0"}
                          \cup (IF "containerProperties" \in doc.keys THEN {"@cp"} ELSE {})
                          \cup (IF "parameters" \in doc.keys THEN {"@parameters"} ELSE {})
                          \cup (IF "tags" \in doc.keys THEN {"@tags"} ELSE {})
             listAddrs == IF "containerProperties" \in doc.keys
                             /\ "environment" \in doc.cpkeys
                          THEN {"@environment"} ELSE {}
         IN  [exc |-> NONE,
              obj |-> "@spec0",
              heap |-> [d |-> [a \in dictAddrs |->
                                  CASE a = "@spec0" -> top
                                    [] a = "@cp" -> cp
                                    [] a = "@parameters" -> doc.parameters
                                    [] a = "@tags" -> doc.tags],
                        l |-> [a \in listAddrs |-> doc.environment]]]

----------------------------------------------------------------------------
(* edit_spec *)

\* addresses dict.copy() may allocate, in allocation order
CopyAddrs == [i \in 1..(MaxCalls + 1) |-> "@ret" \o ToString(i)]

Fresh(h) == CopyAddrs[Cardinality(DOMAIN h.d \cap {CopyAddrs[i] : i \in DOMAIN CopyAddrs}) + 1]

\* spec.copy(): a new top-level dict holding the same values (references)
dict_copy(h, src, dst) == [h EXCEPT !.d = Put(h.d, dst, h.d[src])]

SetItem(h, a, k, v) == [h EXCEPT !.d[a] = Put(h.d[a], k, v)]

\* the four entries with the region and account entries ahead of the names
EnvAdditionsReordered(wf_name, step_name, env) ==
    << [name |-> "AWS_DEFAULT_REGION", value |-> env["REGION"]],
       [name |-> "AWS_ACCOUNT_ID", value |-> env["ACCT_NUM"]],
       [name |-> "BC_WORKFLOW_NAME", value |-> wf_name],
       [name |-> "BC_STEP_NAME", value |-> step_name] >>

\* the four entries of lines 70-73
EnvAdditions(wf_name, step_name, env) ==
    << [name |-> "BC_WORKFLOW_NAME", value |-> wf_name],
       [name |-> "BC_STEP_NAME", value |-> step_name],
       [name |-> "AWS_DEFAULT_REGION", value |-> env["REGION"]],
       [name |-> "AWS_ACCOUNT_ID", value |-> env["ACCT_NUM"]] >>

\* list += list extends the left operand in place
ListIAdd(h, a, more) == [h EXCEPT !.l[a] = h.l[a] \o more]

edit_spec(h, spec_, wf_name, step_name, image, env) ==
    LET ret == Fresh(h)
        h1  == dict_copy(h, spec_, ret)
        h2  == SetItem(h1, ret, "jobDefinitionName", wf_name \o "_" \o step_name)
        Raise(hh, e) == [heap |-> hh, ret |-> NONE, exc |-> e]
    IN  IF "containerProperties" \notin DOMAIN h2.d[ret] THEN Raise(h2, "KeyError")
        ELSE LET cp == h2.d[ret]["containerProperties"]
        IN  IF "environment" \notin DOMAIN h2.d[cp] THEN Raise(h2, "KeyError")
        ELSE IF ~({"REGION", "ACCT_NUM"} \subseteq DOMAIN env) THEN Raise(h2, "KeyError")
        ELSE LET h3 == ListIAdd(h2, h2.d[cp]["environment"],
                                EnvAdditions(wf_name, step_name, env))
        IN  IF "parameters" \notin DOMAIN h3.d[ret] THEN Raise(h3, "KeyError")
        ELSE LET h4 == SetItem(h3, h3.d[ret]["parameters"], "image", json_dumps(image))
        IN  IF "tags" \notin DOMAIN h4.d[ret] THEN Raise(h4, "KeyError")
        ELSE LET h5 == SetItem(h4, h4.d[ret]["tags"], "bclaw:workflow", wf_name)
        IN  [heap |-> h5, ret |-> ret, exc |-> NONE]

\* the environment list reachable from a spec object
EnvOf(h, a) == h.l[h.d[h.d[a]["containerProperties"]]["environment"]]

\* the content of a spec object, nested containers included
ContentOf(h, a) ==
    LET top == h.d[a]
    IN  [top |-> [k \in DOMAIN top \ {"containerProperties", "parameters", "tags"} |-> top[k]],
         keys |-> DOMAIN top,
         environment |-> IF "containerProperties" \in DOMAIN top
                            /\ "environment" \in DOMAIN h.d[top["containerProperties"]]
                         THEN EnvOf(h, a) ELSE <<>>,
         parameters |-> IF "parameters" \in DOMAIN top THEN h.d[top["parameters"]] ELSE EmptyDict,
         tags |-> IF "tags" \in DOMAIN top THEN h.d[top["tags"]] ELSE EmptyDict]

----------------------------------------------------------------------------
(* Inputs *)

EventKeys == {"RequestType", "PhysicalResourceId", "StackId", "RequestId",
              "LogicalResourceId", "ResponseURL", "ResourceProperties"}

PropKeys == {"workflowName", "stepName", "image", "spec"}

\* key sets an event may lack: PhysicalResourceId is optional, and at most
\* one of the other keys is missing
MissingKeys ==
    {m \cup n : m \in SUBSET {"PhysicalResourceId"},
                n \in {{}} \cup {{k} : k \in EventKeys \ {"PhysicalResourceId"}}}

MissingProps == {{}} \cup {{k} : k \in PropKeys}

Entries == {[name |-> "A", value |-> "1"], [name |-> "BC_STEP_NAME", value |-> "old"]}

Doc(keys, cpkeys, env) ==
    [keys |-> keys, cpkeys |-> cpkeys, environment |-> env,
     parameters |-> ("vcpus" :> "1"), tags |-> ("owner" :> "me")]

SpecKeys == {"containerProperties", "parameters", "tags"}

\* documents lacking one of the keys edit_spec needs
BrokenDocs ==
    {Doc(SpecKeys \ {k}, {"environment"}, <<>>) : k \in SpecKeys}
    \cup {Doc(SpecKeys, {}, <<>>)}

\* documents satisfying edit_spec's input contract
ValidDocs == {Doc(SpecKeys, {"environment"}, e) : e \in SeqsUpTo(Entries, MaxEnv)}

Texts ==
    {[wellformed |-> FALSE, doc |-> Doc({}, {}, <<>>)]}
    \cup {[wellformed |-> TRUE, doc |-> d] : d \in BrokenDocs \cup ValidDocs}

Images == {("tag" :> "v2") @@ ("repo" :> "x"), ("tag" :> "v1")}

AllProps(text, image) ==
    [k \in PropKeys |->
        CASE k = "workflowName" -> "wf1"
          [] k = "stepName" -> "step1"
          [] k = "image" -> image
          [] k = "spec" -> text]

Props == {[k \in PropKeys \ m |-> AllProps(t, i)[k]] :
              m \in MissingProps, t \in Texts, i \in Images}

AllEvent(rt, props) ==
    [k \in EventKeys |->
        CASE k = "RequestType" -> rt
          [] k = "PhysicalResourceId" -> "jobdef:1"
          [] k = "StackId" -> "stack"
          [] k = "RequestId" -> "req"
          [] k = "LogicalResourceId" -> "logical"
          [] k = "ResponseURL" -> "https://cfn/put?sig"
          [] k = "ResourceProperties" -> props]

Events(rts, props) ==
    {[k \in EventKeys \ m |-> AllEvent(rt, p)[k]] :
        m \in MissingKeys, rt \in rts, p \in props}

Contexts == {("log_group_name" :> "grp") @@ ("log_stream_name" :> "strm"),
             ("log_stream_name" :> "strm"),
             EmptyDict}

Environs == {("REGION" :> "us-east-1") @@ ("ACCT_NUM" :> "123"),
             ("REGION" :> "us-east-1"),
             ("ACCT_NUM" :> "123")}

Arns == {"arn:jobdef:2", "arn:jobdef:3"}

----------------------------------------------------------------------------
(* Response and respond *)

\* an envelope whose Status defaults to SUCCESS
ResponseDefaultSuccess(PhysicalResourceId, StackId, RequestId, LogicalResourceId, NoEcho) ==
    [PhysicalResourceId |-> PhysicalResourceId,
     StackId |-> StackId,
     RequestId |-> RequestId,
     LogicalResourceId |-> LogicalResourceId,
     Status |-> "SUCCESS",
     Reason |-> "",
     NoEcho |-> NoEcho,
     Data |-> EmptyDict]

Response(PhysicalResourceId, StackId, RequestId, LogicalResourceId, NoEcho) ==
    [PhysicalResourceId |-> PhysicalResourceId,
     StackId |-> StackId,
     RequestId |-> RequestId,
     LogicalResourceId |-> LogicalResourceId,
     Status |-> "FAILED",
     Reason |-> "",
     NoEcho |-> NoEcho,
     Data |-> EmptyDict]

\* Response.return_this(**kwargs) with one keyword
return_this(r, k, v) == [r EXCEPT !.Data = Put(r.Data, k, v)]

\* the f-string of line 61
ReasonText(ctx) ==
    "see log group " \o ctx["log_group_name"] \o " / log stream " \o ctx["log_stream_name"]

\* respond: one https.request("PUT", ...) carrying the body
respond(reqs, url, body) == Append(reqs, [method |-> "PUT", url |-> url, body |-> body])

----------------------------------------------------------------------------
(* responder *)

\* lines 48-56: build the envelope, then yield it to the body
EnterScope ==
    /\ pc = "enter"
    /\ IF {"StackId", "RequestId", "LogicalResourceId"} \subseteq DOMAIN event
       THEN /\ response' = Response(Get(event, "PhysicalResourceId"), event["StackId"],
                                    event["RequestId"], event["LogicalResourceId"], FALSE)
            /\ pc' = IF caller = "lambda_handler" THEN "body" ELSE "generic"
            /\ exc' = exc
       ELSE /\ exc' = "KeyError"
            /\ pc' = "done"
            /\ response' = response
    /\ UNCHANGED <<event, context, environ, caller, bodyExc, requests, transport,
                   batchCalls, batchResult, heap, spec0, spec, calls, writes, left>>

\* lines 57-58: the body returned
NormalExitStatus(r) == [r EXCEPT !.Status = "SUCCESS"]

NormalExit ==
    /\ pc = "normal"
    /\ left' = response.Status
    /\ response' = NormalExitStatus(response)
    /\ pc' = "finally"
    /\ UNCHANGED <<event, context, environ, caller, bodyExc, exc, requests, transport,
                   batchCalls, batchResult, heap, spec0, spec, calls, writes>>

\* lines 59-61: the body raised; the bare except catches it
ExceptExitEnvelope(r, ctx) == [r EXCEPT !.Reason = ReasonText(ctx)]

\* an except clause that reports the text of the caught error
ExceptExitRawReason ==
    /\ pc = "except"
    /\ left' = response.Status
    /\ response' = [response EXCEPT !.Reason = bodyExc]
    /\ exc' = NONE
    /\ pc' = "finally"
    /\ UNCHANGED <<event, context, environ, caller, bodyExc, requests, transport,
                   batchCalls, batchResult, heap, spec0, spec, calls, writes>>

ExceptExit ==
    /\ pc = "except"
    /\ left' = response.Status
    /\ IF {"log_group_name", "log_stream_name"} \subseteq DOMAIN context
       THEN /\ response' = ExceptExitEnvelope(response, context)
            /\ exc' = NONE
       ELSE /\ response' = response
            /\ exc' = "AttributeError"
    /\ pc' = "finally"
    /\ UNCHANGED <<event, context, environ, caller, bodyExc, requests, transport,
                   batchCalls, batchResult, heap, spec0, spec, calls, writes>>

\* delivery placed after the promotion to SUCCESS instead of in the finally clause
FinalizeNormalOnly ==
    /\ pc = "finally"
    /\ IF bodyExc # NONE
       THEN UNCHANGED <<requests, transport, exc>>
       ELSE IF "ResponseURL" \notin DOMAIN event
       THEN /\ exc' = "KeyError"
            /\ UNCHANGED <<requests, transport>>
       ELSE \E ok \in BOOLEAN :
            /\ requests' = respond(requests, event["ResponseURL"], response)
            /\ transport' = IF ok THEN "ok" ELSE "failed"
            /\ exc' = IF ok THEN exc ELSE "TransportError"
    /\ pc' = "done"
    /\ UNCHANGED <<event, context, environ, caller, response, bodyExc,
                   batchCalls, batchResult, heap, spec0, spec, calls, writes, left>>

\* a finally clause that catches the delivery failure
FinalizeSwallow ==
    /\ pc = "finally"
    /\ IF "ResponseURL" \notin DOMAIN event
       THEN /\ exc' = "KeyError"
            /\ UNCHANGED <<requests, transport>>
       ELSE \E ok \in BOOLEAN :
            /\ requests' = respond(requests, event["ResponseURL"], response)
            /\ transport' = IF ok THEN "ok" ELSE "failed"
            /\ exc' = exc
    /\ pc' = "done"
    /\ UNCHANGED <<event, context, environ, caller, response, bodyExc,
                   batchCalls, batchResult, heap, spec0, spec, calls, writes, left>>

\* lines 62-64: deliver the envelope; an exception raised here replaces the
\* one in flight and leaves the generator
Finalize ==
    /\ pc = "finally"
    /\ IF "ResponseURL" \notin DOMAIN event
       THEN /\ exc' = "KeyError"
            /\ UNCHANGED <<requests, transport>>
       ELSE \E ok \in BOOLEAN :
            /\ requests' = respond(requests, event["ResponseURL"], response)
            /\ transport' = IF ok THEN "ok" ELSE "failed"
            /\ exc' = IF ok THEN exc ELSE "TransportError"
    /\ pc' = "done"
    /\ UNCHANGED <<event, context, environ, caller, response, bodyExc,
                   batchCalls, batchResult, heap, spec0, spec, calls, writes, left>>

----------------------------------------------------------------------------
(* lambda_handler *)

\* line 106: boto3.client("batch")
CreateClient ==
    /\ pc = "start"
    /\ \E ok \in BOOLEAN :
         IF ok THEN pc' = "enter" /\ exc' = exc
               ELSE pc' = "done" /\ exc' = "NoRegionError"
    /\ UNCHANGED <<event, context, environ, caller, response, bodyExc, requests,
                   transport, batchCalls, batchResult, heap, spec0, spec, calls,
                   writes, left>>

\* line 109
Dispatch ==
    /\ pc = "body"
    /\ IF "RequestType" \notin DOMAIN event
       THEN bodyExc' = "KeyError" /\ pc' = "except"
       ELSE /\ bodyExc' = bodyExc
            /\ pc' = IF event["RequestType"] \in {"Create", "Update"}
                     THEN "loads" ELSE "delete"
    /\ UNCHANGED <<event, context, environ, caller, response, exc, requests,
                   transport, batchCalls, batchResult, heap, spec0, spec, calls,
                   writes, left>>

\* line 110
LoadSpec ==
    /\ pc = "loads"
    /\ IF "ResourceProperties" \notin DOMAIN event
          \/ "spec" \notin DOMAIN event["ResourceProperties"]
       THEN /\ bodyExc' = "KeyError" /\ pc' = "except"
            /\ UNCHANGED <<heap, spec0>>
       ELSE LET r == json_loads(event["ResourceProperties"]["spec"])
            IN  IF r.exc # NONE
                THEN /\ bodyExc' = r.exc /\ pc' = "except"
                     /\ UNCHANGED <<heap, spec0>>
                ELSE /\ heap' = r.heap /\ spec0' = r.obj
                     /\ bodyExc' = bodyExc /\ pc' = "edit"
    /\ UNCHANGED <<event, context, environ, caller, response, exc, requests,
                   transport, batchCalls, batchResult, spec, calls, writes, left>>

\* one edit_spec call and its record
CallEditSpec(wf_name, step_name, image) ==
    LET r == edit_spec(heap, spec0, wf_name, step_name, image, environ)
    IN  /\ heap' = r.heap
        /\ spec' = r.ret
        /\ calls' = Append(calls, [pre |-> heap, post |-> r.heap, arg |-> spec0,
                                   ret |-> r.ret, exc |-> r.exc,
                                   wf_name |-> wf_name, step_name |-> step_name])
        /\ bodyExc' = r.exc

\* lines 111-115
EditSpecStep ==
    /\ pc = "edit"
    /\ LET props == event["ResourceProperties"]
       IN  IF ~({"workflowName", "stepName", "image"} \subseteq DOMAIN props)
           THEN /\ bodyExc' = "KeyError" /\ pc' = "except"
                /\ UNCHANGED <<heap, spec, calls>>
           ELSE /\ CallEditSpec(props["workflowName"], props["stepName"], props["image"])
                /\ pc' = IF bodyExc' = NONE THEN "register" ELSE "except"
    /\ UNCHANGED <<event, context, environ, caller, response, exc, requests,
                   transport, batchCalls, batchResult, spec0, writes, left>>

\* the ARN returned as data only, the envelope's resource id left alone
CaptureArnDataOnly(r, arn) == return_this(r, "Arn", arn)

\* lines 118-119
CaptureArn(r, arn) == return_this([r EXCEPT !.PhysicalResourceId = arn], "Arn", arn)

\* lines 117-119
Register ==
    /\ pc = "register"
    /\ batchCalls' = Append(batchCalls, [op |-> "register_job_definition",
                                         arg |-> heap.d[spec]["jobDefinitionName"],
                                         raised |-> FALSE])
    /\ \E out \in {NONE} \cup Arns :
         IF out = NONE
         THEN /\ bodyExc' = "ClientError" /\ pc' = "except"
              /\ UNCHANGED <<response, batchResult>>
         ELSE /\ batchResult' = out
              /\ response' = CaptureArn(response, out)
              /\ bodyExc' = bodyExc /\ pc' = "normal"
    /\ UNCHANGED <<event, context, environ, caller, exc, requests, transport,
                   heap, spec0, spec, calls, writes, left>>

\* a Delete branch without its try/except
DeleteStepPropagates ==
    /\ pc = "delete"
    /\ LET job_def_id == Get(event, "PhysicalResourceId")
       IN  IF job_def_id # NONE
           THEN \E raised \in BOOLEAN :
                  /\ batchCalls' = Append(batchCalls, [op |-> "deregister_job_definition",
                                                       arg |-> job_def_id,
                                                       raised |-> raised])
                  /\ bodyExc' = IF raised THEN "ClientError" ELSE bodyExc
                  /\ pc' = IF raised THEN "except" ELSE "normal"
           ELSE /\ batchCalls' = batchCalls
                /\ bodyExc' = bodyExc
                /\ pc' = "normal"
    /\ UNCHANGED <<event, context, environ, caller, response, exc, requests,
                   transport, batchResult, heap, spec0, spec, calls, writes, left>>

\* a Delete branch without the test for a missing resource id
DeleteStepUnconditional ==
    /\ pc = "delete"
    /\ \E raised \in BOOLEAN :
         batchCalls' = Append(batchCalls, [op |-> "deregister_job_definition",
                                           arg |-> Get(event, "PhysicalResourceId"),
                                           raised |-> raised])
    /\ pc' = "normal"
    /\ UNCHANGED <<event, context, environ, caller, response, bodyExc, exc, requests,
                   transport, batchResult, heap, spec0, spec, calls, writes, left>>

\* lines 123-129: the Delete branch; its own try/except swallows the failure
DeleteStep ==
    /\ pc = "delete"
    /\ LET job_def_id == Get(event, "PhysicalResourceId")
       IN  IF job_def_id # NONE
           THEN \E raised \in BOOLEAN :
                  batchCalls' = Append(batchCalls, [op |-> "deregister_job_definition",
                                                    arg |-> job_def_id,
                                                    raised |-> raised])
           ELSE batchCalls' = batchCalls
    /\ pc' = "normal"
    /\ UNCHANGED <<event, context, environ, caller, response, bodyExc, exc, requests,
                   transport, batchResult, heap, spec0, spec, calls, writes, left>>

Init ==
    /\ event \in Events({"Create", "Update", "Delete"}, Props)
    /\ context \in Contexts
    /\ environ \in Environs
    /\ caller = "lambda_handler"
    /\ pc = "start"
    /\ response = NONE
    /\ bodyExc = NONE
    /\ exc = NONE
    /\ requests = <<>>
    /\ transport = "none"
    /\ batchCalls = <<>>
    /\ batchResult = NONE
    /\ heap = EmptyHeap
    /\ spec0 = NONE
    /\ spec = NONE
    /\ calls = <<>>
    /\ writes = 0
    /\ left = NONE

Next ==
    \/ CreateClient
    \/ EnterScope
    \/ Dispatch
    \/ LoadSpec
    \/ EditSpecStep
    \/ Register
    \/ DeleteStep
    \/ NormalExit
    \/ ExceptExit
    \/ Finalize

Spec == Init /\ [][Next]_vars

----------------------------------------------------------------------------
(* edit_spec called directly, possibly more than once on one spec object *)

EditAgain ==
    /\ pc = "edit_spec"
    /\ Len(calls) < MaxCalls
    /\ LET props == event["ResourceProperties"]
       IN  CallEditSpec(props["workflowName"], props["stepName"], props["image"])
    /\ pc' = pc
    /\ UNCHANGED <<event, context, environ, caller, response, exc, requests,
                   transport, batchCalls, batchResult, spec0, writes, left>>

EditTexts == {[wellformed |-> TRUE, doc |-> d] : d \in BrokenDocs \cup ValidDocs}

InitEdit ==
    /\ \E t \in EditTexts, i \in Images, wf \in {"wf1", "wf2"} :
         /\ event = AllEvent("Create", [AllProps(t, i) EXCEPT !["workflowName"] = wf])
         /\ heap = json_loads(t).heap
         /\ spec0 = json_loads(t).obj
    /\ context \in {("log_group_name" :> "grp") @@ ("log_stream_name" :> "strm")}
    /\ environ \in Environs
    /\ caller = "edit_spec"
    /\ pc = "edit_spec"
    /\ response = NONE
    /\ bodyExc = NONE
    /\ exc = NONE
    /\ requests = <<>>
    /\ transport = "none"
    /\ batchCalls = <<>>
    /\ batchResult = NONE
    /\ spec = NONE
    /\ calls = <<>>
    /\ writes = 0
    /\ left = NONE

NextEdit == EditAgain

SpecEdit == InitEdit /\ [][NextEdit]_vars

----------------------------------------------------------------------------
(* responder around an arbitrary scope body: the body holds the yielded    *)
(* envelope and may assign its fields before it returns or raises          *)

GenericAssign ==
    /\ pc = "generic"
    /\ writes < MaxWrites
    /\ writes' = writes + 1
    /\ \/ \E s \in {"SUCCESS", "FAILED"} : response' = [response EXCEPT !.Status = s]
       \/ response' = [response EXCEPT !.PhysicalResourceId = "new-id"]
       \/ response' = return_this(response, "Out", "v")
    /\ UNCHANGED <<event, context, environ, caller, pc, bodyExc, exc, requests,
                   transport, batchCalls, batchResult, heap, spec0, spec, calls, left>>

GenericReturn ==
    /\ pc = "generic"
    /\ pc' = "normal"
    /\ UNCHANGED <<event, context, environ, caller, response, bodyExc, exc, requests,
                   transport, batchCalls, batchResult, heap, spec0, spec, calls,
                   writes, left>>

GenericRaise ==
    /\ pc = "generic"
    /\ bodyExc' = "Exception"
    /\ pc' = "except"
    /\ UNCHANGED <<event, context, environ, caller, response, exc, requests,
                   transport, batchCalls, batchResult, heap, spec0, spec, calls,
                   writes, left>>

InitScope ==
    /\ event \in Events({"Create"}, {AllProps([wellformed |-> FALSE, doc |-> Doc({}, {}, <<>>)],
                                              ("tag" :> "v1"))})
    /\ context \in Contexts
    /\ environ \in {("REGION" :> "us-east-1") @@ ("ACCT_NUM" :> "123")}
    /\ caller = "generic"
    /\ pc = "enter"
    /\ response = NONE
    /\ bodyExc = NONE
    /\ exc = NONE
    /\ requests = <<>>
    /\ transport = "none"
    /\ batchCalls = <<>>
    /\ batchResult = NONE
    /\ heap = EmptyHeap
    /\ spec0 = NONE
    /\ spec = NONE
    /\ calls = <<>>
    /\ writes = 0
    /\ left = NONE

NextScope ==
    \/ EnterScope
    \/ GenericAssign
    \/ GenericReturn
    \/ GenericRaise
    \/ NormalExit
    \/ ExceptExit
    \/ Finalize

SpecScope == InitScope /\ [][NextScope]_vars

----------------------------------------------------------------------------
(* Properties *)

HasURL == "ResponseURL" \in DOMAIN event

RequestTypeIn(S) == "RequestType" \in DOMAIN event /\ event["RequestType"] \in S

\* the responder's try block was entered (the envelope was yielded)
ScopeEntered == pc \notin {"start", "enter", "edit_spec"} /\ (pc = "done" => left # NONE)

\* the body of the one callback request
Body == requests[1].body

ContextNamed == {"log_group_name", "log_stream_name"} \subseteq DOMAIN context

\* C1: whenever the responder scope was entered and the event carries a
\* ResponseURL, the finished invocation has issued exactly one HTTP PUT, to
\* that URL, whatever the RequestType and however the body ended; no
\* invocation ever issues two, and none is issued before finalization.
C1_ExactlyOnePut ==
    /\ Len(requests) <= 1
    /\ pc # "done" => requests = <<>>
    /\ (pc = "done" /\ ScopeEntered /\ HasURL) =>
          /\ Len(requests) = 1
          /\ requests[1].method = "PUT"
          /\ requests[1].url = event["ResponseURL"]

C1_Witness ==
    /\ pc = "done"
    /\ bodyExc = "JSONDecodeError"
    /\ RequestTypeIn({"Update"})
    /\ Len(requests) = 1

\* C2: a Create or Update whose register_job_definition call returned ARN a
\* sends a callback body with Status SUCCESS, PhysicalResourceId a and
\* Data.Arn a, replacing the event's own PhysicalResourceId.
C2_RegisterSuccess ==
    (pc = "done" /\ batchResult # NONE /\ HasURL) =>
        /\ RequestTypeIn({"Create", "Update"})
        /\ Len(requests) = 1
        /\ Body.Status = "SUCCESS"
        /\ Body.PhysicalResourceId = batchResult
        /\ "Arn" \in DOMAIN Body.Data
        /\ Body.Data["Arn"] = batchResult

C2_Witness ==
    /\ pc = "done"
    /\ RequestTypeIn({"Update"})
    /\ Get(event, "PhysicalResourceId") = "jobdef:1"
    /\ batchResult = "arn:jobdef:3"
    /\ transport = "ok"
    /\ Body.PhysicalResourceId = "arn:jobdef:3"

\* C3: a Create or Update whose body failed at any step (bad spec JSON, a
\* missing property or spec key, register raising) has the failure caught:
\* nothing but a delivery failure leaves the invocation, and the callback
\* body has Status FAILED, the fixed log group / log stream Reason (not the
\* error's text), the event's PhysicalResourceId (None when absent) and an
\* empty Data.  The context is one that has both log names.
C3_FailureReported ==
    (pc = "done" /\ RequestTypeIn({"Create", "Update"}) /\ bodyExc # NONE
       /\ ContextNamed /\ HasURL) =>
        /\ Len(requests) = 1
        /\ Body.Status = "FAILED"
        /\ Body.Reason = "see log group " \o context["log_group_name"]
                            \o " / log stream " \o context["log_stream_name"]
        /\ Body.Reason # bodyExc
        /\ Body.PhysicalResourceId = Get(event, "PhysicalResourceId")
        /\ Body.Data = EmptyDict
        /\ exc = (IF transport = "ok" THEN NONE ELSE "TransportError")

C3_Witness ==
    /\ pc = "done"
    /\ RequestTypeIn({"Create"})
    /\ bodyExc = "ClientError"
    /\ "PhysicalResourceId" \notin DOMAIN event
    /\ transport = "ok"
    /\ Body.Status = "FAILED"
    /\ Body.Reason = "see log group grp / log stream strm"

\* C4: a Delete carrying PhysicalResourceId p calls deregister_job_definition
\* once with jobDefinition = p; whether that call returns or raises, the body
\* ends without an exception and the callback has Status SUCCESS and an
\* empty Reason.
C4_DeleteBestEffort ==
    (pc = "done" /\ RequestTypeIn({"Delete"}) /\ ScopeEntered
       /\ Get(event, "PhysicalResourceId") # NONE) =>
        /\ Len(batchCalls) = 1
        /\ batchCalls[1].op = "deregister_job_definition"
        /\ batchCalls[1].arg = event["PhysicalResourceId"]
        /\ bodyExc = NONE
        /\ HasURL => /\ Len(requests) = 1
                     /\ Body.Status = "SUCCESS"
                     /\ Body.Reason = ""

C4_Witness ==
    /\ pc = "done"
    /\ RequestTypeIn({"Delete"})
    /\ Len(batchCalls) = 1
    /\ batchCalls[1].raised
    /\ transport = "ok"
    /\ Body.Status = "SUCCESS"

\* C5: a Delete carrying no PhysicalResourceId never calls the batch client,
\* and its callback has Status SUCCESS and a None PhysicalResourceId.
C5_DeleteNothing ==
    (RequestTypeIn({"Delete"}) /\ Get(event, "PhysicalResourceId") = NONE) =>
        /\ batchCalls = <<>>
        /\ (pc = "done" /\ ScopeEntered /\ HasURL) =>
              /\ Len(requests) = 1
              /\ Body.Status = "SUCCESS"
              /\ Body.PhysicalResourceId = NONE

C5_Witness ==
    /\ pc = "done"
    /\ RequestTypeIn({"Delete"})
    /\ "PhysicalResourceId" \notin DOMAIN event
    /\ transport = "ok"
    /\ Body.Status = "SUCCESS"
    /\ batchCalls = <<>>

\* C6: when respond raises, on the normal-exit or the exceptional-exit path,
\* the failure leaves the invocation as its exception, and exactly one PUT
\* was attempted: the delivery is never retried.
C6_TransportFatal ==
    /\ Len(requests) <= 1
    /\ (pc = "done" /\ transport = "failed") =>
          /\ exc = "TransportError"
          /\ Len(requests) = 1

C6_Witness ==
    /\ pc = "done"
    /\ transport = "failed"
    /\ bodyExc # NONE
    /\ exc = "TransportError"

C6_WitnessNormal ==
    /\ pc = "done"
    /\ transport = "failed"
    /\ bodyExc = NONE
    /\ exc = "TransportError"

\* C7: every edit_spec call leaves the content of the caller's spec object
\* (its top-level keys, environment list, parameters and tags) as it was
\* before the call, and two calls on one spec object return equal results.
C7_CallerSpecUntouched ==
    /\ \A i \in DOMAIN calls :
         ContentOf(calls[i].post, calls[i].arg) = ContentOf(calls[i].pre, calls[i].arg)
    /\ (Len(calls) = 2 /\ calls[1].exc = NONE /\ calls[2].exc = NONE) =>
          ContentOf(calls[2].post, calls[2].ret) = ContentOf(calls[1].post, calls[1].ret)

\* C8: for every edit_spec call that returns, the result's environment list
\* is the list E the spec held when the call was made, followed by
\* BC_WORKFLOW_NAME, BC_STEP_NAME, AWS_DEFAULT_REGION and AWS_ACCOUNT_ID in
\* that order with the workflow name, step name, REGION and ACCT_NUM as
\* values; and a valid spec with both variables set does return.
C8_EnvAppended ==
    \A i \in DOMAIN calls :
       LET c == calls[i]
       IN  /\ c.exc = NONE =>
                EnvOf(c.post, c.ret) =
                    EnvOf(c.pre, c.arg) \o
                    << [name |-> "BC_WORKFLOW_NAME", value |-> c.wf_name],
                       [name |-> "BC_STEP_NAME", value |-> c.step_name],
                       [name |-> "AWS_DEFAULT_REGION", value |-> environ["REGION"]],
                       [name |-> "AWS_ACCOUNT_ID", value |-> environ["ACCT_NUM"]] >>
           /\ (event["ResourceProperties"]["spec"].doc \in ValidDocs
               /\ DOMAIN environ = {"REGION", "ACCT_NUM"}) => c.exc = NONE

C8_Witness ==
    /\ Len(calls) >= 1
    /\ calls[1].exc = NONE
    /\ Len(EnvOf(calls[1].pre, calls[1].arg)) = MaxEnv
    /\ EnvOf(calls[1].pre, calls[1].arg)[1].name = "BC_STEP_NAME"
    /\ Len(EnvOf(calls[1].post, calls[1].ret)) = MaxEnv + 4

\* C9 as stated: a scope body that raises never yields a callback whose
\* Status is SUCCESS, whatever the body assigned before raising.
C9_RaiseNeverSuccess ==
    (pc = "done" /\ bodyExc # NONE /\ Len(requests) = 1) => Body.Status # "SUCCESS"

\* C9 amended: the envelope is yielded with Status FAILED; a body that
\* returns yields Status SUCCESS whatever it assigned; a body that raises
\* yields the Status it left in the envelope, which is FAILED unless the
\* body assigned Status itself.
C9_StatusAsLeft ==
    /\ (pc \in {"body", "generic"} /\ writes = 0) => response.Status = "FAILED"
    /\ (pc = "done" /\ Len(requests) = 1) =>
          /\ bodyExc = NONE => Body.Status = "SUCCESS"
          /\ bodyExc # NONE => Body.Status = left
          /\ (bodyExc # NONE /\ writes = 0) => Body.Status = "FAILED"

C9_Witness ==
    /\ pc = "done"
    /\ caller = "generic"
    /\ bodyExc # NONE
    /\ writes > 0
    /\ Len(requests) = 1
    /\ left = "SUCCESS"
    /\ Body.Status = "SUCCESS"

\* C10: the only exception that leaves lambda_handler is a delivery failure;
\* every other failure ends in a sent FAILED callback or is the swallowed
\* deregistration failure.
C10_OnlyTransportEscapes ==
    pc = "done" => exc \in {NONE, "TransportError"}

====
